---- MODULE Spec2Model ----
\* State-machine model of src/src/main.py: the aiogram dispatcher of the
\* category/task bot, its SQLite store and the per-chat FSM storage.
\*
\* A text is a sequence of code points (one-character strings); a message
\* without text (media) has text None, written NoText (Telegram never delivers
\* an empty text, so <<>> is free to stand for None).  The SQL NULL of an
\* INTEGER column is written NoId (row ids start at 1).
EXTENDS Integers, Sequences, FiniteSets, TLC

\* ---------------------------------------------------------------- bounds

MaxCatId == 2
MaxTaskId == 2
MaxMsgId == 1
MaxInFlight == 2

Chats == {1, 2}
CatIds == 1..MaxCatId
TaskIds == 1..MaxTaskId
MsgIds == 1..MaxMsgId
Slots == 1..MaxInFlight

\* ---------------------------------------------------------------- texts

NoText == <<>>
NoId == 0

FolderGlyph == "U+1F4C1"
PlusGlyph == "U+2795"
CrossGlyph == "U+274C"

FolderPrefix == <<FolderGlyph, " ">>
AddToPrefix == <<PlusGlyph, " ", "A", "d", "d", " ", "t", "o", " ">>
CancelText == <<CrossGlyph, " ", "C", "a", "n", "c", "e", "l">>
NewCategoryText ==
    <<PlusGlyph, " ", "N", "e", "w", " ", "C", "a", "t", "e", "g", "o", "r", "y">>
StartText == <<"/", "s", "t", "a", "r", "t">>
MediaText == <<"M", "e", "d", "i", "a">>
NoneRepr == <<"N", "o", "n", "e">>
PreviewLen == 20

NameA == <<"A">>
NameB == <<"B">>
Names == {NameA, NameB}

\* The texts of the specification Spec: the button texts and the names typed
\* as free text.  (Messages without text are part of SpecWork.)
Texts ==
    {StartText, CancelText, NewCategoryText}
        \cup Names
        \cup {FolderPrefix \o n : n \in Names}
        \cup {AddToPrefix \o NameA}

\* str.startswith
StartsWith(t, p) == Len(t) >= Len(p) /\ SubSeq(t, 1, Len(p)) = p

\* t[k-1:], the slice of show_category one short
DropCharsShort(t, k) == IF Len(t) <= k - 1 THEN <<>> ELSE SubSeq(t, k, Len(t))

\* t[k:]
DropChars(t, k) == IF Len(t) <= k THEN <<>> ELSE SubSeq(t, k + 1, Len(t))

\* t[:k]
TakeChars(t, k) == IF Len(t) <= k THEN t ELSE SubSeq(t, 1, k)

\* f"{name}": None is formatted as the four characters of "None"
Fmt(name) == IF name = NoText THEN NoneRepr ELSE name

\* ---------------------------------------------------------------- state

VARIABLES
    running,     \* the polling loop of main() is active
    schema,      \* the tables that exist in the database file
    categories,  \* table categories: id -> name
    tasks,       \* table tasks: id -> [cat_id, chat_id, msg_id, preview_text]
    fsm,         \* FSM storage: chat -> [state, current_cat_id, rename_cat_id]
                 \* (private chats: the storage key's user is the chat)
    durable,     \* the committed rows of the database file: [categories, tasks]
    inflight,    \* the handlers suspended at an await: slot -> [handler, update, pc]
    out,         \* the handler that ran last, its update, the platform calls it issued
    hist         \* the updates so far, while they follow one of the Scripts

vars == <<running, schema, categories, tasks, fsm, durable, inflight, out, hist>>

Idle == "Idle"
WaitingNewCategoryName == "waiting_new_category_name"
WaitingRenameCategory == "waiting_rename_category"
WaitingContent == "waiting_content"

\* state.clear(): no state, empty data
Cleared == [state |-> Idle, current_cat_id |-> NoId, rename_cat_id |-> NoId]

EmptyTable == [i \in {} |-> 0]

\* ---------------------------------------------------------------- store

SetMax(S) == CHOOSE m \in S : \A x \in S : x <= m
SetMin(S) == CHOOSE m \in S : \A x \in S : m <= x

\* INTEGER PRIMARY KEY without AUTOINCREMENT: one more than the largest rowid
NextRowId(table) ==
    IF DOMAIN table = {} THEN 1 ELSE SetMax(DOMAIN table) + 1

\* The ids of S in ascending order (the order of a table scan)
RECURSIVE Ascending(_)
Ascending(S) ==
    IF S = {} THEN <<>> ELSE <<SetMin(S)>> \o Ascending(S \ {SetMin(S)})

\* name TEXT without the UNIQUE constraint
NameNeverTaken(cats, name, except) == FALSE

\* name TEXT UNIQUE: a NULL name conflicts with nothing
NameTaken(cats, name, except) ==
    /\ name # NoText
    /\ \E i \in DOMAIN cats \ {except} : cats[i] = name

\* INSERT INTO categories without OR IGNORE and without the UNIQUE constraint
InsertCategory(cats, name) ==
    [i \in DOMAIN cats \cup {NextRowId(cats)} |->
        IF i \in DOMAIN cats THEN cats[i] ELSE name]

\* INSERT OR IGNORE INTO categories (name) VALUES (?)
InsertOrIgnoreCategory(cats, name) ==
    IF NameTaken(cats, name, NoId)
    THEN cats
    ELSE [i \in DOMAIN cats \cup {NextRowId(cats)} |->
            IF i \in DOMAIN cats THEN cats[i] ELSE name]

\* SELECT id FROM categories without the WHERE clause: the first row
FindFirstCategory(cats, name) ==
    IF DOMAIN cats = {} THEN NoId ELSE SetMin(DOMAIN cats)

\* SELECT id FROM categories WHERE name = ? ... fetchone(); NoId for no row
FindCategory(cats, name) ==
    LET hits == {i \in DOMAIN cats : cats[i] # NoText /\ cats[i] = name}
    IN IF hits = {} THEN NoId ELSE SetMin(hits)

\* UPDATE categories SET name = ? without the WHERE clause
UpdateEveryCategoryName(cats, id, name) == [i \in DOMAIN cats |-> name]

\* UPDATE categories SET name = ? WHERE id = ?
UpdateCategoryName(cats, id, name) ==
    [i \in DOMAIN cats |-> IF i = id THEN name ELSE cats[i]]

\* INSERT INTO tasks that leaves cat_id out
InsertTaskWithoutCategory(tbl, cat_id, chat_id, msg_id, preview) ==
    [i \in DOMAIN tbl \cup {NextRowId(tbl)} |->
        IF i \in DOMAIN tbl
        THEN tbl[i]
        ELSE [cat_id |-> NoId, chat_id |-> chat_id, msg_id |-> msg_id,
              preview_text |-> preview]]

\* INSERT INTO tasks (cat_id, chat_id, msg_id, preview_text) VALUES (?, ?, ?, ?)
InsertTask(tbl, cat_id, chat_id, msg_id, preview) ==
    [i \in DOMAIN tbl \cup {NextRowId(tbl)} |->
        IF i \in DOMAIN tbl
        THEN tbl[i]
        ELSE [cat_id |-> cat_id, chat_id |-> chat_id, msg_id |-> msg_id,
              preview_text |-> preview]]

\* DELETE FROM <table> WHERE id = ?
DeleteRow(table, id) == [i \in DOMAIN table \ {id} |-> table[i]]

\* delete_category without its first DELETE
KeepTasksOfCategory(tbl, cat_id) == tbl

\* DELETE FROM tasks WHERE cat_id = ?
DeleteTasksOfCategory(tbl, cat_id) ==
    [i \in {j \in DOMAIN tbl : tbl[j].cat_id # cat_id} |-> tbl[i]]

\* SELECT id, chat_id, msg_id FROM tasks WHERE cat_id = ?
TaskIdsOfCategory(tbl, cat_id) == {i \in DOMAIN tbl : tbl[i].cat_id = cat_id}

\* CREATE TABLE <name> without IF NOT EXISTS: "table already exists"
CreateTable(exists, rows) ==
    [ok |-> ~exists, rows |-> IF exists THEN rows ELSE EmptyTable]

\* CREATE TABLE IF NOT EXISTS <name> on a table that exists or not, with the
\* rows it holds: never an error, and an existing table keeps its rows
CreateTableIfNotExists(exists, rows) ==
    [ok |-> TRUE, rows |-> IF exists THEN rows ELSE EmptyTable]

\* ---------------------------------------------------------------- keyboards

Kb(type, id, buttons) == [type |-> type, id |-> id, buttons |-> buttons]

NoKb == Kb("none", NoId, <<>>)

\* main_menu that stops one row short
main_menu_short(cats) ==
    LET ids == Ascending(DOMAIN cats)
    IN Kb("main_menu", NoId,
          [k \in 1..(Len(ids) - 1) |-> FolderPrefix \o Fmt(cats[ids[k]])]
              \o <<NewCategoryText>>)

\* KeyboardFactory.main_menu: one folder button per row of SELECT name FROM
\* categories, then the new-category button
main_menu(cats) ==
    LET ids == Ascending(DOMAIN cats)
    IN Kb("main_menu", NoId,
          [k \in 1..Len(ids) |-> FolderPrefix \o Fmt(cats[ids[k]])]
              \o <<NewCategoryText>>)

cancel_kb == Kb("cancel", NoId, <<CancelText>>)

\* inline keyboards: the callback data of their buttons is (action, id)
task_inline(task_id) == Kb("task_inline", task_id, <<>>)
category_settings_btn(cat_id) == Kb("category_settings_btn", cat_id, <<>>)
category_mgmt_menu(cat_id) == Kb("category_mgmt_menu", cat_id, <<>>)

\* the reply keyboard built in show_category
add_to_kb(cat_name) == Kb("add_to", NoId, <<AddToPrefix \o cat_name, CancelText>>)

\* ---------------------------------------------------------------- platform calls

Call(op, chat, text, kb, from_chat, msg_id) ==
    [op |-> op, chat |-> chat, text |-> text, kb |-> kb,
     from_chat |-> from_chat, msg_id |-> msg_id, ok |-> TRUE]

Send(chat, text, kb) == Call("send", chat, text, kb, NoId, NoId)
Copy(chat, from_chat, msg_id, kb) == Call("copy", chat, "", kb, from_chat, msg_id)
EditText(chat, text, kb) == Call("edit_text", chat, text, kb, NoId, NoId)
DeleteMessage(chat) == Call("delete", chat, "", NoKb, NoId, NoId)
Answer(chat, text) == Call("answer_callback", chat, text, NoKb, NoId, NoId)

\* The calls a handler issues when its f-th call raises a transport error
\* (f = 0: none does): the calls before it succeed, the f-th fails and the
\* handler is left there.
Issued(calls, f) ==
    IF f = 0
    THEN calls
    ELSE [i \in 1..f |-> IF i = f THEN [calls[i] EXCEPT !.ok = FALSE] ELSE calls[i]]

\* ---------------------------------------------------------------- updates

Update(kind, chat, text, message_id, action, id) ==
    [kind |-> kind, chat |-> chat, text |-> text, message_id |-> message_id,
     action |-> action, id |-> id]

\* a message; message_id is given where a handler reads it (save_task)
Message(chat, text, message_id) == Update("message", chat, text, message_id, "", NoId)

\* a callback query with callback data CategoryCB / TaskCB (action, id)
Callback(chat, action, id) == Update("callback_query", chat, NoText, NoId, action, id)

\* the start of the process
Startup == Update("startup", NoId, NoText, NoId, "", NoId)

Outcome(handler, update, calls, error) ==
    [handler |-> handler, update |-> update, calls |-> calls, error |-> error]

TransportError(f) == IF f = 0 THEN "none" ELSE "transport"

\* ---------------------------------------------------------------- scripts

Work == <<"W", "o", "r", "k">>

\* section 8, first sequence test: create "Work", open it, add one content
\* message (a text or a media message), open it again
WorkScript(content) ==
    <<Startup,
      Message(1, NewCategoryText, NoId),
      Message(1, Work, NoId),
      Message(1, FolderPrefix \o Work, NoId),
      Message(1, AddToPrefix \o Work, NoId),
      Message(1, content, 1),
      Message(1, FolderPrefix \o Work, NoId)>>

\* section 8, second sequence test: create "A", rename it to "B", open "B",
\* open "A"
RenameScript ==
    <<Startup,
      Message(1, NewCategoryText, NoId),
      Message(1, NameA, NoId),
      Callback(1, "rename_cat", 1),
      Message(1, NameB, NoId),
      Message(1, FolderPrefix \o NameB, NoId),
      Message(1, FolderPrefix \o NameA, NoId)>>

\* the same name submitted twice as a new category
TwiceScript ==
    <<Startup,
      Message(1, NewCategoryText, NoId),
      Message(1, NameA, NoId),
      Message(1, NewCategoryText, NoId),
      Message(1, NameA, NoId)>>

\* categories "A" and "B" with one task each; and, from there or on the way:
\* cancel while content is awaited, the rename of category 1 to a free name,
\* the deletion of category 1
TwoCategories ==
    <<Startup,
      Message(1, NewCategoryText, NoId),
      Message(1, NameA, NoId),
      Message(1, NewCategoryText, NoId),
      Message(1, NameB, NoId),
      Message(1, FolderPrefix \o NameA, NoId),
      Message(1, AddToPrefix \o NameA, NoId),
      Message(1, NameB, 1),
      Message(1, FolderPrefix \o NameB, NoId),
      Message(1, AddToPrefix \o NameA, NoId),
      Message(1, NameA, 1)>>

CancelScript ==
    SubSeq(TwoCategories, 1, 9) \o <<Message(1, CancelText, NoId)>>

RenameWithTasksScript ==
    TwoCategories \o <<Callback(1, "rename_cat", 1),
                       Message(1, AddToPrefix \o NameA, NoId)>>

DeleteWithTasksScript == TwoCategories \o <<Callback(1, "delete_cat", 1)>>

\* chat 2 asks for the main menu, alone and after chat 1 created "A"
MenuAloneScript == <<Startup, Message(2, StartText, NoId)>>

MenuAfterOtherScript ==
    <<Startup,
      Message(1, NewCategoryText, NoId),
      Message(1, NameA, NoId),
      Message(2, StartText, NoId)>>

\* chat 2 opens "A", alone and after chat 1 created "A" and put a task in it
OpenAloneScript == <<Startup, Message(2, FolderPrefix \o NameA, NoId)>>

OpenAfterOtherScript ==
    <<Startup,
      Message(1, NewCategoryText, NoId),
      Message(1, NameA, NoId),
      Message(1, FolderPrefix \o NameA, NoId),
      Message(1, AddToPrefix \o NameA, NoId),
      Message(1, NameA, 1),
      Message(2, FolderPrefix \o NameA, NoId)>>

Scripts ==
    {WorkScript(Work), WorkScript(NoText), RenameScript, TwiceScript,
     CancelScript, RenameWithTasksScript, DeleteWithTasksScript,
     MenuAloneScript, MenuAfterOtherScript, OpenAloneScript, OpenAfterOtherScript}

IsPrefix(p, s) == Len(p) <= Len(s) /\ SubSeq(s, 1, Len(p)) = p

Following(events) == [on |-> TRUE, events |-> events]
OffScript == [on |-> FALSE, events |-> <<>>]

\* hist after one more update
Track(h, update) ==
    IF h.on /\ \E s \in Scripts : IsPrefix(Append(h.events, update), s)
    THEN Following(Append(h.events, update))
    ELSE OffScript

\* the rows of both tables
Stored(cats, tbl) == [categories |-> cats, tasks |-> tbl]

\* a handler whose db.commit() comes after its platform calls: a raising call
\* leaves the handler before the commit
CommitsAfterCalls(handler, error) ==
    /\ handler \in {"main", "save_category", "save_renamed_category", "save_task",
                    "delete_task", "delete_category"}
    /\ error = "none"

\* The handler reaches its db.commit(): the handlers that change rows (and
\* main) commit right after their last statement and before their first
\* platform call, so a raising call comes too late to skip the commit; a
\* raising statement leaves the handler before it.
Commits(handler, error) ==
    /\ handler \in {"main", "save_category", "save_renamed_category", "save_task",
                    "delete_task", "delete_category"}
    /\ error \notin {"integrity", "sql"}

\* no handler in the slot
NoHandler == [handler |-> "none", update |-> Startup, pc |-> "none"]

\* a handler suspended before the statement or call named pc
Suspended(handler, update, pc) == [handler |-> handler, update |-> update, pc |-> pc]

\* What every handler leaves behind: the database file, which a commit on the
\* shared connection brings up to the rows of the connection (whoever changed
\* them), the suspended handlers, which end with the process, and, for the
\* properties, the handler's outcome and hist
Done(handler, update, calls, error) ==
    /\ inflight' = IF handler = "main" THEN [w \in Slots |-> NoHandler] ELSE inflight
    /\ durable' = IF Commits(handler, error)
                  THEN Stored(categories', tasks')
                  ELSE durable
    /\ out' = Outcome(handler, update, calls, error)
    /\ hist' = Track(hist, update)

\* ---------------------------------------------------------------- routing

\* Command("start"): the text is the command, alone or followed by arguments
IsStartCommand(t) == t = StartText \/ StartsWith(t, StartText \o <<" ">>)

\* dp.message handlers in registration order, the first whose filter passes
Route(state, t) ==
    IF IsStartCommand(t) \/ t = CancelText THEN "cmd_start"
    ELSE IF t = NewCategoryText THEN "add_cat_init"
    ELSE IF state = WaitingNewCategoryName THEN "save_category"
    ELSE IF StartsWith(t, FolderPrefix) THEN "show_category"
    ELSE IF state = WaitingRenameCategory THEN "save_renamed_category"
    ELSE IF StartsWith(t, AddToPrefix) THEN "add_task_init"
    ELSE IF state = WaitingContent THEN "save_task"
    ELSE "unhandled"

Routed(c, t, handler) == running /\ Route(fsm[c].state, t) = handler

\* ---------------------------------------------------------------- handlers

Init ==
    /\ running = FALSE
    /\ schema = {}
    /\ categories = EmptyTable
    /\ tasks = EmptyTable
    /\ fsm = [c \in Chats |-> Cleared]
    /\ durable = Stored(EmptyTable, EmptyTable)
    /\ inflight = [w \in Slots |-> NoHandler]
    /\ out = Outcome("none", Startup, <<>>, "none")
    /\ hist = Following(<<>>)

\* main(): a connection to the database file, schema creation, then polling
\* with a fresh Dispatcher storage.  Taken while the process runs, it is the
\* process ending (KeyboardInterrupt, SystemExit) and being started again on
\* the same database file: the new connection sees the committed rows.
main ==
    LET c == CreateTableIfNotExists("categories" \in schema, durable.categories)
        t == CreateTableIfNotExists("tasks" \in schema, durable.tasks)
    IN /\ categories' = IF c.ok THEN c.rows ELSE durable.categories
       /\ tasks' = IF c.ok /\ t.ok THEN t.rows ELSE durable.tasks
       /\ schema' = schema \cup (IF c.ok THEN {"categories"} ELSE {})
                           \cup (IF c.ok /\ t.ok THEN {"tasks"} ELSE {})
       /\ running' = (c.ok /\ t.ok)
       /\ fsm' = [ch \in Chats |-> Cleared]
       /\ Done("main", Startup, <<>>, IF c.ok /\ t.ok THEN "none" ELSE "sql")

cmd_start(c, t, f) ==
    /\ Routed(c, t, "cmd_start")
    /\ fsm' = [fsm EXCEPT ![c] = Cleared]
    /\ Done("cmd_start", Message(c, t, NoId),
            Issued(<<Send(c, "Main Menu:", main_menu(categories))>>, f),
            TransportError(f))
    /\ UNCHANGED <<running, schema, categories, tasks>>

add_cat_init(c, t, f) ==
    /\ Routed(c, t, "add_cat_init")
    /\ fsm' = IF f = 0
              THEN [fsm EXCEPT ![c].state = WaitingNewCategoryName]
              ELSE fsm
    /\ Done("add_cat_init", Message(c, t, NoId),
            Issued(<<Send(c, "Enter category name:", cancel_kb)>>, f),
            TransportError(f))
    /\ UNCHANGED <<running, schema, categories, tasks>>

save_category(c, t, f) ==
    /\ Routed(c, t, "save_category")
    /\ NameTaken(categories, t, NoId) \/ NextRowId(categories) <= MaxCatId
    /\ categories' = InsertOrIgnoreCategory(categories, t)
    /\ fsm' = [fsm EXCEPT ![c] = Cleared]
    /\ UNCHANGED <<running, schema, tasks>>
    /\ Done("save_category", Message(c, t, NoId),
            Issued(<<Send(c, "Category created.", main_menu(categories'))>>, f),
            TransportError(f))

\* Replay whose except clause ends the loop (break for continue)
ReplayUntilFailure(c, tbl, ids, failing) ==
    LET bad == {k \in 1..Len(ids) : ids[k] \in failing}
        n == IF bad = {} THEN Len(ids) ELSE SetMin(bad)
    IN [k \in 1..n |->
          [Copy(c, tbl[ids[k]].chat_id, tbl[ids[k]].msg_id, task_inline(ids[k]))
              EXCEPT !.ok = ids[k] \notin failing]]

\* the copy_message calls of show_category, one per task row in scan order;
\* a call for a task in `failing` raises and is caught by the handler
Replay(c, tbl, ids, failing) ==
    [k \in 1..Len(ids) |->
        [Copy(c, tbl[ids[k]].chat_id, tbl[ids[k]].msg_id, task_inline(ids[k]))
            EXCEPT !.ok = ids[k] \notin failing]]

show_category(c, t, failing, f) ==
    LET cat_name == DropChars(t, 2)
        cat_id == FindCategory(categories, cat_name)
        ids == Ascending(TaskIdsOfCategory(tasks, cat_id))
        tail == <<Send(c, "Content of category:", add_to_kb(cat_name)),
                  Send(c, "Settings:", category_settings_btn(cat_id))>>
    IN /\ Routed(c, t, "show_category")
       /\ IF cat_id = NoId
          THEN /\ failing = {} /\ f = 0
               /\ Done("show_category", Message(c, t, NoId), <<>>, "none")
               /\ UNCHANGED fsm
          ELSE /\ failing \subseteq TaskIdsOfCategory(tasks, cat_id)
               /\ fsm' = [fsm EXCEPT ![c].current_cat_id = cat_id]
               /\ Done("show_category", Message(c, t, NoId),
                       Replay(c, tasks, ids, failing) \o Issued(tail, f),
                       TransportError(f))
       /\ UNCHANGED <<running, schema, categories, tasks>>

\* A callback query carries the (action, id) of an inline button of the chat's
\* history.  Buttons outlive the rows they were made for (an id is free again
\* once its row is deleted, and the history outlives the database file), so a
\* callback may carry any id, stale or not.
category_settings(c, id, f) ==
    /\ running
    /\ Done("category_settings", Callback(c, "settings", id),
            Issued(<<EditText(c, "Control Panel:", category_mgmt_menu(id)),
                     Answer(c, "")>>, f),
            TransportError(f))
    /\ UNCHANGED <<running, schema, categories, tasks, fsm>>

rename_cat_init(c, id, f) ==
    /\ running
    /\ fsm' = [fsm EXCEPT
          ![c].rename_cat_id = id,
          ![c].state = IF f = 1 THEN @ ELSE WaitingRenameCategory]
    /\ Done("rename_cat_init", Callback(c, "rename_cat", id),
            Issued(<<Send(c, "Enter new name for this category:", cancel_kb),
                     Answer(c, "")>>, f),
            TransportError(f))
    /\ UNCHANGED <<running, schema, categories, tasks>>

save_renamed_category(c, t, f) ==
    LET cat_id == fsm[c].rename_cat_id
    IN /\ Routed(c, t, "save_renamed_category")
       /\ UNCHANGED <<running, schema, tasks>>
       /\ IF cat_id \in DOMAIN categories /\ NameTaken(categories, t, cat_id)
          THEN \* sqlite3.IntegrityError (UNIQUE constraint failed) leaves the handler
               /\ f = 0
               /\ Done("save_renamed_category", Message(c, t, NoId), <<>>, "integrity")
               /\ UNCHANGED <<categories, fsm>>
          ELSE /\ categories' = UpdateCategoryName(categories, cat_id, t)
               /\ fsm' = [fsm EXCEPT ![c] = Cleared]
               /\ Done("save_renamed_category", Message(c, t, NoId),
                       Issued(<<Send(c, "Category renamed.", main_menu(categories'))>>, f),
                       TransportError(f))

add_task_init(c, t, f) ==
    /\ Routed(c, t, "add_task_init")
    /\ fsm' = IF f = 0 THEN [fsm EXCEPT ![c].state = WaitingContent] ELSE fsm
    /\ Done("add_task_init", Message(c, t, NoId),
            Issued(<<Send(c, "Send content:", cancel_kb)>>, f),
            TransportError(f))
    /\ UNCHANGED <<running, schema, categories, tasks>>

\* (message.text or message.caption or "Media")[:20]; captions are not modelled
Preview(t) == TakeChars(IF t = NoText THEN MediaText ELSE t, PreviewLen)

save_task(c, t, message_id, f) ==
    LET cat_id == fsm[c].current_cat_id
    IN /\ Routed(c, t, "save_task")
       /\ NextRowId(tasks) <= MaxTaskId
       /\ tasks' = InsertTask(tasks, cat_id, c, message_id, Preview(t))
       /\ fsm' = [fsm EXCEPT ![c] = Cleared]
       /\ UNCHANGED <<running, schema, categories>>
       /\ Done("save_task", Message(c, t, message_id),
               Issued(<<Send(c, "Saved!", main_menu(categories))>>, f),
               TransportError(f))

delete_task(c, id, f) ==
    /\ running
    /\ tasks' = DeleteRow(tasks, id)
    /\ UNCHANGED <<running, schema, categories, fsm>>
    /\ Done("delete_task", Callback(c, "delete_task", id),
            Issued(<<DeleteMessage(c), Answer(c, "Deleted")>>, f),
            TransportError(f))

delete_category(c, id, f) ==
    /\ running
    /\ tasks' = DeleteTasksOfCategory(tasks, id)
    /\ categories' = DeleteRow(categories, id)
    /\ UNCHANGED <<running, schema, fsm>>
    /\ Done("delete_category", Callback(c, "delete_cat", id),
            Issued(<<Answer(c, "Category deleted"),
                     Send(c, "Returning to Main Menu...", main_menu(categories')),
                     DeleteMessage(c)>>, f),
            TransportError(f))

\* no handler's filter passes: the update is dropped
unhandled(c, t) ==
    /\ Routed(c, t, "unhandled")
    /\ Done("unhandled", Message(c, t, NoId), <<>>, "none")
    /\ UNCHANGED <<running, schema, categories, tasks, fsm>>

\* ---------------------------------------------------------------- handlers, await by await

\* start_polling handles every update in a task of its own, and a task gives
\* way to the others at each await that waits: a statement or commit on the
\* connection (run by the connection's thread in the order of submission) and
\* a platform call; the FSM storage is memory and its awaits do not wait.
\* The steps below are save_task and delete_category cut at these awaits, a
\* slot holding the handler between two steps.

\* the slot a handler that starts is kept in
FreeSlot(w) == w = SetMin({v \in Slots : inflight[v] = NoHandler} \cup {MaxInFlight + 1})

\* save_task up to the INSERT: the state filter, get_data, the statement
save_task_insert(w, c, t, message_id) ==
    /\ FreeSlot(w)
    /\ Routed(c, t, "save_task")
    /\ NextRowId(tasks) <= MaxTaskId
    /\ tasks' = InsertTask(tasks, fsm[c].current_cat_id, c, message_id, Preview(t))
    /\ inflight' = [inflight EXCEPT
          ![w] = Suspended("save_task", Message(c, t, message_id), "commit")]
    /\ hist' = Track(hist, Message(c, t, message_id))
    /\ UNCHANGED <<running, schema, categories, fsm, durable, out>>

\* db.commit() of save_task
save_task_commit(w) ==
    /\ running
    /\ inflight[w].handler = "save_task" /\ inflight[w].pc = "commit"
    /\ durable' = Stored(categories, tasks)
    /\ inflight' = [inflight EXCEPT ![w].pc = "clear"]
    /\ UNCHANGED <<running, schema, categories, tasks, fsm, out, hist>>

\* state.clear() and the answer of save_task
save_task_clear(w) ==
    LET u == inflight[w].update
    IN /\ running
       /\ inflight[w].handler = "save_task" /\ inflight[w].pc = "clear"
       /\ fsm' = [fsm EXCEPT ![u.chat] = Cleared]
       /\ out' = Outcome("save_task", u,
                         <<Send(u.chat, "Saved!", main_menu(categories))>>, "none")
       /\ inflight' = [inflight EXCEPT ![w] = NoHandler]
       /\ UNCHANGED <<running, schema, categories, tasks, durable, hist>>

\* delete_category up to its first statement, DELETE FROM tasks
delete_category_tasks(w, c, id) ==
    /\ running
    /\ FreeSlot(w)
    /\ tasks' = DeleteTasksOfCategory(tasks, id)
    /\ inflight' = [inflight EXCEPT
          ![w] = Suspended("delete_category", Callback(c, "delete_cat", id), "categories")]
    /\ hist' = Track(hist, Callback(c, "delete_cat", id))
    /\ UNCHANGED <<running, schema, categories, fsm, durable, out>>

\* the second statement of delete_category, DELETE FROM categories
delete_category_row(w) ==
    /\ running
    /\ inflight[w].handler = "delete_category" /\ inflight[w].pc = "categories"
    /\ categories' = DeleteRow(categories, inflight[w].update.id)
    /\ inflight' = [inflight EXCEPT ![w].pc = "commit"]
    /\ UNCHANGED <<running, schema, tasks, fsm, durable, out, hist>>

\* db.commit() of delete_category and the calls that follow it
delete_category_commit(w) ==
    LET u == inflight[w].update
    IN /\ running
       /\ inflight[w].handler = "delete_category" /\ inflight[w].pc = "commit"
       /\ durable' = Stored(categories, tasks)
       /\ out' = Outcome("delete_category", u,
                         <<Answer(u.chat, "Category deleted"),
                           Send(u.chat, "Returning to Main Menu...", main_menu(categories)),
                           DeleteMessage(u.chat)>>, "none")
       /\ inflight' = [inflight EXCEPT ![w] = NoHandler]
       /\ UNCHANGED <<running, schema, categories, tasks, fsm, hist>>

\* ---------------------------------------------------------------- specifications

\* The steps of the program for the chats and texts of an environment; with
\* `transport` the platform calls outside try/except may raise as well.
NextOver(chats, texts, transport) ==
    LET F(k) == IF transport THEN 0..k ELSE {0}
    IN \/ main
       \/ \E c \in chats, t \in texts, f \in F(1) : cmd_start(c, t, f)
       \/ \E c \in chats, t \in texts, f \in F(1) : add_cat_init(c, t, f)
       \/ \E c \in chats, t \in texts, f \in F(1) : save_category(c, t, f)
       \/ \E c \in chats, t \in texts, failing \in SUBSET TaskIds, f \in F(2) :
             show_category(c, t, failing, f)
       \/ \E c \in chats, id \in CatIds, f \in F(2) : category_settings(c, id, f)
       \/ \E c \in chats, id \in CatIds, f \in F(2) : rename_cat_init(c, id, f)
       \/ \E c \in chats, t \in texts, f \in F(1) : save_renamed_category(c, t, f)
       \/ \E c \in chats, t \in texts, f \in F(1) : add_task_init(c, t, f)
       \/ \E c \in chats, t \in texts, m \in MsgIds, f \in F(1) : save_task(c, t, m, f)
       \/ \E c \in chats, id \in TaskIds, f \in F(2) : delete_task(c, id, f)
       \/ \E c \in chats, id \in CatIds, f \in F(3) : delete_category(c, id, f)
       \/ \E c \in chats, t \in texts : unhandled(c, t)

\* one chat, every text of Texts, platform calls outside try/except succeed
Next == NextOver({1}, Texts, FALSE)

Spec == Init /\ [][Next]_vars

\* one chat whose texts are those of the "Work" sequence test
WorkTexts ==
    {StartText, NewCategoryText, NoText, Work, FolderPrefix \o Work, AddToPrefix \o Work}

NextWork == NextOver({1}, WorkTexts, FALSE)

SpecWork == Init /\ [][NextWork]_vars

\* one chat and one name; every platform call outside try/except may raise
TransportTexts ==
    {CancelText, NewCategoryText, NameA, FolderPrefix \o NameA, AddToPrefix \o NameA}

NextTransport == NextOver({1}, TransportTexts, TRUE)

SpecTransport == Init /\ [][NextTransport]_vars

\* two chats on the one Store, one name: chat 1 does everything, chat 2 asks
\* for the main menu and opens categories
ChatTexts ==
    {StartText, NewCategoryText, NameA, FolderPrefix \o NameA, AddToPrefix \o NameA}

NextChats ==
    \/ NextOver({1}, ChatTexts, FALSE)
    \/ \E t \in ChatTexts : cmd_start(2, t, 0)
    \/ \E t \in ChatTexts, failing \in SUBSET TaskIds : show_category(2, t, failing, 0)

SpecChats == Init /\ [][NextChats]_vars

\* one chat and one name; save_task and delete_category run await by await,
\* at most MaxInFlight handlers suspended at a time, while the handlers that
\* lead there run from their first step to their last
ConcurrentTexts ==
    {NewCategoryText, NameA, FolderPrefix \o NameA, AddToPrefix \o NameA}

NextConcurrent ==
    \/ main
    \/ \E t \in ConcurrentTexts : add_cat_init(1, t, 0)
    \/ \E t \in ConcurrentTexts : save_category(1, t, 0)
    \/ \E t \in ConcurrentTexts : show_category(1, t, {}, 0)
    \/ \E t \in ConcurrentTexts : add_task_init(1, t, 0)
    \/ \E w \in Slots, t \in ConcurrentTexts, m \in MsgIds : save_task_insert(w, 1, t, m)
    \/ \E w \in Slots : save_task_commit(w)
    \/ \E w \in Slots : save_task_clear(w)
    \/ \E w \in Slots, id \in CatIds : delete_category_tasks(w, 1, id)
    \/ \E w \in Slots : delete_category_row(w)
    \/ \E w \in Slots : delete_category_commit(w)

SpecConcurrent == Init /\ [][NextConcurrent]_vars

\* ---------------------------------------------------------------- properties

\* the keyboard is a main menu with one folder button per stored category,
\* each labelled with the category's name, and the new-category button
ShowsStore(kb, cats) ==
    LET n == Len(kb.buttons) - 1
        labels == {kb.buttons[k] : k \in 1..n}
                    \cup {FolderPrefix \o Fmt(cats[i]) : i \in DOMAIN cats}
    IN /\ kb.type = "main_menu"
       /\ n = Cardinality(DOMAIN cats)
       /\ kb.buttons[n + 1] = NewCategoryText
       /\ \A b \in labels :
             Cardinality({k \in 1..n : kb.buttons[k] = b})
               = Cardinality({i \in DOMAIN cats : FolderPrefix \o Fmt(cats[i]) = b})

IsMenuSend(call, chat, cats) ==
    call.op = "send" /\ call.chat = chat /\ ShowsStore(call.kb, cats)

\* C1: whatever the state and scratch data of the chat, a step of cmd_start
\* (the /start command or the cancel text) leaves the chat in Idle with empty
\* scratch data, changes no row of the Store and issues one send: a main menu
\* whose folder buttons are the categories of the Store.
C1_ResetFromAnyState ==
    [][out'.handler = "cmd_start" =>
          /\ fsm'[out'.update.chat] = Cleared
          /\ categories' = categories
          /\ tasks' = tasks
          /\ Len(out'.calls) = 1
          /\ IsMenuSend(out'.calls[1], out'.update.chat, categories')]_vars

\* cancel arrived while content was awaited for category 2, two categories stored
C1_Witness ==
    /\ hist = Following(CancelScript)
    /\ out.handler = "cmd_start"
    /\ fsm[1] = Cleared
    /\ Cardinality(DOMAIN categories) = 2

\* C2: after a step of save_category with a text n there is exactly one
\* category named n; when n was stored already, the step changes no category
\* row and no task row and the INSERT raises no error; either way the chat is
\* in Idle with empty scratch data and the send of the main menu is issued.
C2_CreateTwiceOneCategory ==
    [][(out'.handler = "save_category" /\ out'.update.text # NoText) =>
          LET n == out'.update.text
              c == out'.update.chat
          IN /\ Cardinality({i \in DOMAIN categories' : categories'[i] = n}) = 1
             /\ (\E i \in DOMAIN categories : categories[i] = n) =>
                   /\ categories' = categories
                   /\ tasks' = tasks
                   /\ out'.error # "integrity"
             /\ fsm'[c] = Cleared
             /\ Len(out'.calls) = 1
             /\ IsMenuSend(out'.calls[1], c, categories')]_vars

\* "A" was submitted twice and is stored once
C2_Witness ==
    /\ hist = Following(TwiceScript)
    /\ out.handler = "save_category"
    /\ DOMAIN categories = {1}
    /\ categories[1] = NameA

\* C3: a step of save_renamed_category changes no task row, no category id
\* and no name but that of the category rename_cat_id refers to, which, when
\* the handler gets through, is the text of the message.
C3_RenameChangesOneName ==
    [][out'.handler = "save_renamed_category" =>
          LET id == fsm[out'.update.chat].rename_cat_id
          IN /\ tasks' = tasks
             /\ DOMAIN categories' = DOMAIN categories
             /\ \A i \in DOMAIN categories \ {id} : categories'[i] = categories[i]
             /\ (out'.error = "none" /\ id \in DOMAIN categories) =>
                   categories'[id] = out'.update.text]_vars

\* category 1 of two, each with a task, has just been renamed
C3_Witness ==
    /\ hist = Following(RenameWithTasksScript)
    /\ out.handler = "save_renamed_category"
    /\ categories[1] = AddToPrefix \o NameA
    /\ categories[2] = NameB
    /\ tasks[1].cat_id = 1
    /\ tasks[2].cat_id = 2

\* C4: after a step of delete_category for id C the Store holds no category
\* C and no task with cat_id C; the other categories and the tasks of other
\* categories are as before, and no row is new.
C4_DeleteCategoryCascade ==
    [][out'.handler = "delete_category" =>
          LET C == out'.update.id
          IN /\ C \notin DOMAIN categories'
             /\ \A j \in DOMAIN tasks' : tasks'[j].cat_id # C
             /\ DOMAIN categories' = DOMAIN categories \ {C}
             /\ \A i \in DOMAIN categories' : categories'[i] = categories[i]
             /\ DOMAIN tasks' = {j \in DOMAIN tasks : tasks[j].cat_id # C}
             /\ \A j \in DOMAIN tasks' : tasks'[j] = tasks[j]]_vars

\* category 1 and its task are gone, category 2 and its task are left
C4_Witness ==
    /\ hist = Following(DeleteWithTasksScript)
    /\ out.handler = "delete_category"
    /\ DOMAIN categories = {2}
    /\ DOMAIN tasks = {2}
    /\ tasks[2].cat_id = 2

\* C5: a step of show_category for a stored category issues, whichever copies
\* fail, exactly one copy call per task of that category and none else, each
\* from the task's stored pointer and with the delete button of that task's
\* id, followed by the send of the add-to keyboard and, once that send is
\* through, the send of the settings control.
C5_ReplayEveryTask ==
    [][(/\ out'.handler = "show_category"
        /\ \E i \in DOMAIN categories : categories[i] = DropChars(out'.update.text, 2)) =>
          LET name == DropChars(out'.update.text, 2)
              cid == CHOOSE i \in DOMAIN categories : categories[i] = name
              ids == {j \in DOMAIN tasks : tasks[j].cat_id = cid}
              calls == out'.calls
              n == Cardinality(ids)
          IN /\ Len(calls) >= n + 1
             /\ \A k \in 1..n :
                   /\ calls[k].op = "copy"
                   /\ calls[k].kb.type = "task_inline"
                   /\ calls[k].kb.id \in ids
                   /\ calls[k].chat = out'.update.chat
                   /\ calls[k].from_chat = tasks[calls[k].kb.id].chat_id
                   /\ calls[k].msg_id = tasks[calls[k].kb.id].msg_id
             /\ \A j \in ids : Cardinality({k \in 1..n : calls[k].kb.id = j}) = 1
             /\ calls[n + 1].op = "send" /\ calls[n + 1].kb.type = "add_to"
             /\ calls[n + 1].ok =>
                   /\ Len(calls) = n + 2
                   /\ calls[n + 2].op = "send"
                   /\ calls[n + 2].kb = category_settings_btn(cid)]_vars

\* the first of two copies failed, the second was made, the two sends followed
C5_Witness ==
    /\ out.handler = "show_category"
    /\ Len(out.calls) = 4
    /\ out.calls[1].op = "copy" /\ ~out.calls[1].ok
    /\ out.calls[2].op = "copy" /\ out.calls[2].ok
    /\ out.calls[3].op = "send" /\ out.calls[4].op = "send"

CopyCalls(calls) == {k \in 1..Len(calls) : calls[k].op = "copy"}

\* C6: on an empty Store the updates new-category button, "Work", open
\* "Work", add-to-"Work" button, one content message (a text or a media
\* message), open "Work" end with exactly one task, whose cat_id is the id of
\* the category "Work"; the second open replays exactly that task and the
\* first open replays nothing.
C6_WorkSequence ==
    \A content \in {Work, NoText} :
        /\ hist = Following(SubSeq(WorkScript(content), 1, 4)) =>
              /\ out.handler = "show_category"
              /\ Len(out.calls) = 2
              /\ CopyCalls(out.calls) = {}
        /\ hist = Following(WorkScript(content)) =>
              LET work == {i \in DOMAIN categories : categories[i] = Work}
              IN /\ Cardinality(work) = 1
                 /\ Cardinality(DOMAIN tasks) = 1
                 /\ \A j \in DOMAIN tasks : tasks[j].cat_id \in work
                 /\ out.handler = "show_category"
                 /\ Cardinality(CopyCalls(out.calls)) = 1
                 /\ \A k \in CopyCalls(out.calls) :
                       /\ out.calls[k].kb.id \in DOMAIN tasks
                       /\ out.calls[k].from_chat = 1
                       /\ out.calls[k].msg_id = 1

\* the sequence has been run to its end with a media message as content
C6_Witness ==
    /\ hist = Following(WorkScript(NoText))
    /\ out.handler = "show_category"
    /\ DOMAIN tasks = {1}

\* C7: on an empty Store, after "A" is created (id 1) and renamed to "B" by
\* the rename callback for id 1 and the text "B", opening "B" finds category 1
\* and goes on to the replay and the two sends, and opening "A" then finds
\* nothing: no call is issued and nothing changes.
C7_RenameThenOpen ==
    /\ hist = Following(SubSeq(RenameScript, 1, 3)) => categories = (1 :> NameA)
    /\ hist = Following(SubSeq(RenameScript, 1, 6)) =>
          /\ categories = (1 :> NameB)
          /\ out.handler = "show_category"
          /\ fsm[1].current_cat_id = 1
          /\ Len(out.calls) = 2
          /\ out.calls[2].kb = category_settings_btn(1)
    /\ hist = Following(RenameScript) =>
          /\ categories = (1 :> NameB)
          /\ out.handler = "show_category"
          /\ out.calls = <<>>
          /\ out.error = "none"
          /\ fsm[1] = [Cleared EXCEPT !.current_cat_id = 1]

\* "A" was opened after "B": the old name has just been looked up in vain
C7_Witness ==
    /\ hist = Following(RenameScript)
    /\ out.update.text = FolderPrefix \o NameA

\* C8: a step of main, on a database file with or without tables and rows,
\* raises no error, ends with both tables present and the process polling,
\* and changes no category row and no task row.
C8_SchemaCreationIdempotent ==
    [][out'.handler = "main" =>
          /\ out'.error = "none"
          /\ running'
          /\ schema' = {"categories", "tasks"}
          /\ categories' = categories
          /\ tasks' = tasks]_vars

\* the process was started again on a Store that holds categories and tasks
C8_Witness ==
    /\ out.handler = "main"
    /\ schema = {"categories", "tasks"}
    /\ DOMAIN categories # {}
    /\ DOMAIN tasks # {}

\* C9: every stored task's cat_id is the id of a stored category.
C9_TasksReferenceCategories ==
    \A j \in DOMAIN tasks : tasks[j].cat_id \in DOMAIN categories

\* C10: no two stored categories have the same name.
C10_UniqueNames ==
    \A i, j \in DOMAIN categories : i # j => categories[i] # categories[j]

\* C11 as stated: a step of save_renamed_category renames the category
\* rename_cat_id refers to to the text of the message, also when another
\* category carries that name, and in every case leaves the chat in Idle with
\* empty scratch data and issues the send of the main menu.
C11_RenameUnconditional ==
    [][out'.handler = "save_renamed_category" =>
          LET c == out'.update.chat
              id == fsm[c].rename_cat_id
          IN /\ id \in DOMAIN categories => categories'[id] = out'.update.text
             /\ fsm'[c] = Cleared
             /\ Len(out'.calls) = 1
             /\ IsMenuSend(out'.calls[1], c, categories')]_vars

\* C11: a step of save_renamed_category with a text that another category
\* than the one rename_cat_id refers to carries already raises the UNIQUE
\* violation: no category is renamed, the chat keeps its waiting state and its
\* scratch data and no call is issued.  With any other text the category
\* rename_cat_id refers to, when stored, gets the text as its name, the chat is
\* left in Idle with empty scratch data and the send of the main menu is issued.
C11_RenameUnlessNameTaken ==
    [][(out'.handler = "save_renamed_category" /\ out'.update.text # NoText) =>
          LET c == out'.update.chat
              id == fsm[c].rename_cat_id
              n == out'.update.text
              taken == /\ id \in DOMAIN categories
                       /\ \E i \in DOMAIN categories \ {id} : categories[i] = n
          IN IF taken
             THEN /\ categories' = categories
                  /\ fsm' = fsm
                  /\ fsm'[c].state = WaitingRenameCategory
                  /\ out'.calls = <<>>
                  /\ out'.error = "integrity"
             ELSE /\ id \in DOMAIN categories => categories'[id] = n
                  /\ fsm'[c] = Cleared
                  /\ Len(out'.calls) = 1
                  /\ IsMenuSend(out'.calls[1], c, categories')]_vars

\* category 1 was to be renamed to the name of category 2: both names are as
\* they were and the chat still waits for the new name
C11_Witness ==
    /\ out.handler = "save_renamed_category"
    /\ out.error = "integrity"
    /\ out.update.text = NameB
    /\ fsm[1].state = WaitingRenameCategory
    /\ fsm[1].rename_cat_id = 1
    /\ categories = (1 :> NameA @@ 2 :> NameB)

\* C12: whether or not a platform call of the handler raises, a step of
\* add_cat_init leaves the chat in WaitingNewCategoryName, a step of
\* rename_cat_init in WaitingRenameCategory with rename_cat_id recorded, a step
\* of add_task_init in WaitingContent, and a step of cmd_start, save_category,
\* save_task or of a save_renamed_category whose UPDATE went through in Idle
\* with empty scratch data.
C12_StateWhateverTransport ==
    [][out'.error \in {"none", "transport"} =>
          LET c == out'.update.chat
              h == out'.handler
          IN /\ h = "add_cat_init" => fsm'[c].state = WaitingNewCategoryName
             /\ h = "rename_cat_init" =>
                   /\ fsm'[c].state = WaitingRenameCategory
                   /\ fsm'[c].rename_cat_id = out'.update.id
             /\ h = "add_task_init" => fsm'[c].state = WaitingContent
             /\ h \in {"cmd_start", "save_category", "save_renamed_category",
                        "save_task"} => fsm'[c] = Cleared]_vars

\* the main-menu keyboards among the calls
MenuCalls(calls) == {k \in 1..Len(calls) : calls[k].kb.type = "main_menu"}

\* C13: whichever platform call of a handler raises, after the handler's step
\* the database file holds the rows of the connection (every change is
\* committed), the change of the handler is in place (the new category, the
\* new name, the new task, the task or the category and its tasks gone), and
\* every main menu rendered in the step, sent or not, shows the categories of
\* the database file.
C13_CommittedBeforeCalls ==
    [][out'.error \in {"none", "transport"} =>
          LET c == out'.update.chat
              h == out'.handler
              id == out'.update.id
              n == out'.update.text
          IN /\ durable' = Stored(categories', tasks')
             /\ h = "save_category" => \E i \in DOMAIN categories' : categories'[i] = n
             /\ (h = "save_renamed_category" /\ fsm[c].rename_cat_id \in DOMAIN categories) =>
                   categories'[fsm[c].rename_cat_id] = n
             /\ h = "save_task" =>
                   \E j \in DOMAIN tasks' \ DOMAIN tasks :
                       /\ tasks'[j].cat_id = fsm[c].current_cat_id
                       /\ tasks'[j].msg_id = out'.update.message_id
             /\ h = "delete_task" => id \notin DOMAIN tasks'
             /\ h = "delete_category" =>
                   /\ id \notin DOMAIN categories'
                   /\ \A j \in DOMAIN tasks' : tasks'[j].cat_id # id
             /\ \A k \in MenuCalls(out'.calls) :
                   ShowsStore(out'.calls[k].kb, durable'.categories)]_vars

\* the send that follows the creation of "A" raised: "A" is in the database file
C13_Witness ==
    /\ out.handler = "save_category"
    /\ out.error = "transport"
    /\ Len(out.calls) = 1 /\ ~out.calls[1].ok
    /\ out.update.text = NameA
    /\ fsm[1] = Cleared
    /\ durable.categories = (1 :> NameA)

\* C14: a step of a handler that takes a chat out of a waiting state takes it
\* to Idle, and is a step of cmd_start or of the handler that completes what
\* the chat was waiting for.
C14_OnlyIdleToWaitingAndBack ==
    [][out'.handler # "main" =>
          \A c \in Chats :
              (fsm[c].state # Idle /\ fsm'[c].state # fsm[c].state) =>
                  /\ fsm'[c].state = Idle
                  /\ \/ out'.handler = "cmd_start"
                     \/ /\ fsm[c].state = WaitingNewCategoryName
                        /\ out'.handler = "save_category"
                     \/ /\ fsm[c].state = WaitingRenameCategory
                        /\ out'.handler = "save_renamed_category"
                     \/ /\ fsm[c].state = WaitingContent
                        /\ out'.handler = "save_task"]_vars

\* C15: a step of show_category whose text, less the folder prefix, is the
\* name of no stored category issues no call, changes no row of the Store
\* or of the database file, and leaves the state and the scratch data of every
\* chat, current_cat_id included, as they were.
C15_UnknownCategoryDropped ==
    [][(/\ out'.handler = "show_category"
        /\ \A i \in DOMAIN categories :
               categories[i] # DropChars(out'.update.text, 2)) =>
          /\ out'.calls = <<>>
          /\ out'.error = "none"
          /\ categories' = categories
          /\ tasks' = tasks
          /\ durable' = durable
          /\ fsm' = fsm]_vars

\* "B" was opened while content was awaited for category "A", the only one
C15_Witness ==
    /\ out.handler = "show_category"
    /\ out.update.text = FolderPrefix \o NameB
    /\ out.calls = <<>>
    /\ categories = (1 :> NameA)
    /\ fsm[1] = [state |-> WaitingContent, current_cat_id |-> 1, rename_cat_id |-> NoId]

\* C16: the calls issued for an update of chat 2 are the same in two runs
\* that differ only in the updates of chat 1: the main menu chat 2 asks for
\* after chat 1 created "A" is the menu it gets when it asks alone (no folder
\* button), and opening "A" after chat 1 created it and put a task in it
\* issues what it issues alone (no call).
C16_ChatsAreNamespaces ==
    LET menu == <<Send(2, "Main Menu:", main_menu(EmptyTable))>>
    IN /\ hist = Following(MenuAloneScript) => out.calls = menu
       /\ hist = Following(MenuAfterOtherScript) => out.calls = menu
       /\ hist = Following(OpenAloneScript) => out.calls = <<>>
       /\ hist = Following(OpenAfterOtherScript) => out.calls = <<>>

\* the routing rules 1 to 11 of section 4.4: the condition of rule k for an
\* update u of a chat in state st, and the handler of rule k
RuleHolds(k, st, u) ==
    LET msg == u.kind = "message"
        cb == u.kind = "callback_query"
        t == u.text
    IN CASE k = 1 -> msg /\ (IsStartCommand(t) \/ t = CancelText)
         [] k = 2 -> msg /\ t = NewCategoryText
         [] k = 3 -> msg /\ st = WaitingNewCategoryName /\ t # NoText
         [] k = 4 -> msg /\ StartsWith(t, FolderPrefix)
         [] k = 5 -> cb /\ u.action = "settings"
         [] k = 6 -> cb /\ u.action = "rename_cat"
         [] k = 7 -> msg /\ st = WaitingRenameCategory /\ t # NoText
         [] k = 8 -> msg /\ StartsWith(t, AddToPrefix)
         [] k = 9 -> msg /\ st = WaitingContent
         [] k = 10 -> cb /\ u.action = "delete_task"
         [] k = 11 -> cb /\ u.action = "delete_cat"

RuleHandler ==
    <<"cmd_start", "add_cat_init", "save_category", "show_category",
      "category_settings", "rename_cat_init", "save_renamed_category",
      "add_task_init", "save_task", "delete_task", "delete_category">>

\* C17: the handler that takes a text message or a callback query is that of
\* the first of the rules 1 to 11 whose condition holds, and none when none
\* holds.  A text with the folder prefix that arrives in
\* WaitingNewCategoryName is stored as a category name: the chat is left in
\* Idle with empty scratch data (no category is opened), one call is issued,
\* the send of the main menu.  The same text in WaitingRenameCategory or
\* WaitingContent goes to show_category: with a stored name it sets
\* current_cat_id and issues the sends of the opened category; no category
\* name, no task and not the waiting state of the chat is changed.
C17_FirstRuleWins ==
    [][out'.handler # "main" =>
          LET u == out'.update
              c == u.chat
              st == fsm[c].state
              hold == {k \in 1..11 : RuleHolds(k, st, u)}
              folder == u.kind = "message" /\ StartsWith(u.text, FolderPrefix)
          IN /\ out'.handler = IF hold = {} THEN "unhandled"
                                ELSE RuleHandler[SetMin(hold)]
             /\ (folder /\ st = WaitingNewCategoryName) =>
                   /\ out'.handler = "save_category"
                   /\ \E i \in DOMAIN categories' : categories'[i] = u.text
                   /\ fsm'[c] = Cleared
                   /\ Len(out'.calls) = 1
                   /\ IsMenuSend(out'.calls[1], c, categories')
             /\ (folder /\ st \in {WaitingRenameCategory, WaitingContent}) =>
                   /\ out'.handler = "show_category"
                   /\ categories' = categories
                   /\ tasks' = tasks
                   /\ fsm'[c].state = st
                   /\ fsm'[c].rename_cat_id = fsm[c].rename_cat_id
                   /\ (\E i \in DOMAIN categories :
                          categories[i] = DropChars(u.text, 2)) =>
                         /\ categories[fsm'[c].current_cat_id] = DropChars(u.text, 2)
                         /\ Len(out'.calls) >= 2
                         /\ out'.calls[Len(out'.calls)].kb =
                               category_settings_btn(fsm'[c].current_cat_id)]_vars

\* C18: while a delete_category for a stored category C is between its two
\* statements (the tasks of C deleted, C not yet) and the process goes on, no step of the
\* program commits, none inserts a task, and none of another handler reads the
\* Store (renders a main menu or opens a category).
C18_DeletionAtomic ==
    [][\A w \in Slots :
          (/\ inflight[w].handler = "delete_category"
           /\ inflight[w].pc = "categories"
           /\ inflight[w].update.id \in DOMAIN categories
           /\ inflight'[w] # NoHandler) =>
              /\ durable' = durable
              /\ DOMAIN tasks' \subseteq DOMAIN tasks
              /\ out' # out =>
                    /\ MenuCalls(out'.calls) = {}
                    /\ out'.handler # "show_category"]_vars

\* C19: a chat in WaitingContent has a current_cat_id, and no stored task has
\* a NULL cat_id.
C19_ContentHasTarget ==
    /\ \A c \in Chats : fsm[c].state = WaitingContent => fsm[c].current_cat_id # NoId
    /\ \A j \in DOMAIN tasks : tasks[j].cat_id # NoId

\* C20: while a save_task of a chat is between its INSERT and its
\* state.clear() (the chat is not yet back in Idle) and the process goes on,
\* no step inserts a further task of that chat.
C20_OneTaskPerEntry ==
    [][\A w \in Slots :
          (/\ inflight[w].handler = "save_task"
           /\ inflight'[w] # NoHandler) =>
              \A j \in DOMAIN tasks' \ DOMAIN tasks :
                  tasks'[j].chat_id # inflight[w].update.chat]_vars

====
